---- MODULE Spec2Model ----
(***************************************************************************)
(* Model of hackeeg/acquire_data.cpp: the serial frame reader              *)
(* (read_data_from_serial_port, read_response), the acquisition loops      *)
(* (acquire_data_cpp and HackEEGDriver::acquire_data) and the gap detector *)
(* (HackEEGDriver::find_dropped_samples).                                  *)
(*                                                                         *)
(* Bytes are integers 0..255.  Times are integer microseconds.  The        *)
(* floating-point elapsed time is kept exactly as a multiple of 1/1000    *)
(* microsecond (elapsedMilli).  The float argument `duration` is kept as   *)
(* a number of halves of a second (DurDenom = 2).                          *)
(***************************************************************************)
EXTENDS Integers, Sequences, FiniteSets, TLC

\* ------------------------------------------------------------------ bounds
\* largest max_samples a caller or a session asks for
MaxSamples == 2
\* largest duration, in halves of a second
MaxDurHalves == 3
\* largest speed (samples per second)
MaxSpeed == 2

\* ------------------------------------------------------- program constants
\* the size of the read buffer and of a frame: buffer(38), raw_data.size() < 38
FrameSize == 38
\* the divisor applied to start_time in the returned elapsed time
ElapsedDivisor == 1000
\* the mode_ value selecting MessagePack mode
MessagePackMode == 2

\* denominator of the modelled duration values (halves of a second)
DurDenom == 2

\* MessagePack format bytes handled by the unpacker model
ByteBin8 == 196
ByteNeverUsed == 193
MaxFixInt == 127

\* ------------------------------------------------------------ environment
\* The device emits back-to-back MessagePack bin8 objects of objLen bytes:
\* 0xc4, the payload length, then the payload.  A payload byte at index j of
\* its object has value j, so that every byte of an object identifies its
\* position.  corruptAt is the offset of one byte replaced by 0xc1 (the byte
\* value MessagePack never uses), or -1.
Streams ==
    { [objLen |-> 38, corruptAt |-> -1],
      [objLen |-> 19, corruptAt |-> -1],
      [objLen |-> 76, corruptAt |-> -1],
      [objLen |-> 38, corruptAt |-> 38] }

\* by how much the clock advances between two readings of it (microseconds)
Ticks == {0, 1}
\* what the first reading of the clock returns
ClockStarts == {5000}

\* byte counts read(fd, buf, 38) returns in the model; -1 is the error return
ReadLens == {0, 19, 38}
ReadError == -1

\* the sessions' configured defaults (this->max_samples, duration, speed, mode_)
Sessions ==
    { [max_samples |-> 0, duration |-> 0, speed |-> 0, mode |-> MessagePackMode],
      [max_samples |-> MaxSamples, duration |-> MaxDurHalves, speed |-> 1, mode |-> 1] }

\* values read_rdatac_response hands to the driver loop
DriverResults == {7}
\* what reading samples.back() of an empty vector may yield when it does not crash
IndeterminateValues == {0}

VARIABLES
    pc,              \* "idle", "loop", "accum", "done", "thrown", "crashed"
    entry,           \* "cpp": acquire_data_cpp, "driver": HackEEGDriver::acquire_data
    session,         \* this->max_samples, this->duration, this->speed, mode_
    stream,          \* what the device sends
    pos,             \* number of bytes the source has delivered
    now,             \* the last value the clock returned
    max_samples, duration, speed,   \* the parameters, as overwritten by the defaults
    max_sample_time,
    samples, sample_counter,
    start_time, end_time,
    raw_data,        \* read_response's accumulation buffer
    frameStart,      \* pos when the current read_response began
    lastRead,        \* what the latest read() returned
    failed,          \* read() has returned -1
    error,           \* the exception that left the acquisition, or "none"
    result,          \* what the caller receives
    args,            \* the values the caller passed
    displayed,       \* what has been written to std::cout by the display step
    gap,             \* a call of find_dropped_samples: its input and its result
    dec              \* a call of the unpack loop on an encoded buffer

vars == << pc, entry, session, stream, pos, now, max_samples, duration, speed,
           max_sample_time, samples, sample_counter, start_time, end_time,
           raw_data, frameStart, lastRead, failed, error, result,
           args, displayed, gap, dec >>

\* --------------------------------------------------------------- helpers
StreamByte(s, i) ==
    IF i = s.corruptAt THEN ByteNeverUsed
    ELSE LET j == i % s.objLen
         IN  IF j = 0 THEN ByteBin8
             ELSE IF j = 1 THEN s.objLen - 2
             ELSE j

\* the n bytes the source delivers from offset p on
StreamSlice(s, p, n) == [k \in 1..n |-> StreamByte(s, p + k - 1)]

\* read_data_from_serial_port: buffer(38); len = read(...); buffer.resize(len).
\* resize(-1) is resize(SIZE_MAX), which throws std::length_error.
ResizeThrowsRetried(len) == FALSE
ResizeThrowsOnShort(len) == len < FrameSize
ResizeThrows(len) == len = ReadError

read_data_from_serial_port(s, p, len) ==
    IF ResizeThrows(len)
    THEN [thrown |-> TRUE, buffer |-> << >>]
    ELSE [thrown |-> FALSE, buffer |-> StreamSlice(s, p, IF len < 0 THEN 0 ELSE len)]

\* raw_data += chunk
AccumulateDiscard(raw, chunk) == chunk
Accumulate(raw, chunk) == raw \o chunk

\* the unpacker: pac.next(oh) yields the next complete object of the buffer,
\* returns false when what is left is incomplete, throws parse_error on 0xc1.
\* An object is kept as msgpack::object keeps it inline: its type and its
\* integer value or payload size.
RECURSIVE UnpackFrom(_, _, _)
UnpackFrom(buf, i, acc) ==
    IF i > Len(buf) THEN [objs |-> acc, err |-> FALSE]
    ELSE LET b == buf[i] IN
         IF b = ByteNeverUsed THEN [objs |-> acc, err |-> TRUE]
         ELSE IF b <= MaxFixInt
              THEN UnpackFrom(buf, i + 1, Append(acc, [type |-> "int", val |-> b]))
         ELSE IF i + 1 > Len(buf) \/ i + 1 + buf[i + 1] > Len(buf)
              THEN [objs |-> acc, err |-> FALSE]
         ELSE UnpackFrom(buf, i + 2 + buf[i + 1],
                         Append(acc, [type |-> "bin", val |-> buf[i + 1]]))

\* if (pac.next(oh)) in place of while (pac.next(oh))
UnpackFirstOnly(buf) ==
    LET u == UnpackFrom(buf, 1, << >>)
    IN  [objs |-> IF u.objs = << >> THEN << >> ELSE << u.objs[1] >>, err |-> u.err]

Unpack(buf) == UnpackFrom(buf, 1, << >>)

\* int max_sample_time = duration * speed  (float product truncated to int)
MaxSampleTime(d, s) == (d * s) \div DurDenom

\* the while condition of both loops
LoopCondEither == sample_counter < max_samples \/ sample_counter < max_sample_time
LoopCond == sample_counter < max_samples /\ sample_counter < max_sample_time

\* end_time - start_time / 1000.0, in thousandths of a microsecond
ElapsedCpp(e, s) == ElapsedDivisor * e - s
\* dur_ = end_time - start_time, in thousandths of a microsecond
ElapsedDriver(e, s) == ElapsedDivisor * (e - s)

NoResult == [returned |-> FALSE, samples |-> << >>, count |-> 0, elapsedMilli |-> 0]

NoArgs == [max_samples |-> 0, duration |-> 0, speed |-> 0, display_output |-> FALSE]
GapIdle == [samples |-> << >>, expected |-> 0, result |-> -1, op |-> "idle"]
DecIdle == [objs |-> << >>, out |-> << >>, err |-> FALSE, done |-> FALSE]

\* if (x == 0) x = this->x
ResolveNonPositive(arg, default) == IF arg <= 0 THEN default ELSE arg
Resolve(arg, default) == IF arg = 0 THEN default ELSE arg

\* samples.push_back(result)
push_front(s, x) == << x >> \o s
push_back(s, x) == Append(s, x)

Last(s) == s[Len(s)]

\* ------------------------------------------------------------------ Init
Init ==
    /\ pc = "idle"
    /\ entry = "cpp"
    /\ session \in Sessions
    /\ stream \in Streams
    /\ pos = 0
    /\ now \in ClockStarts
    /\ max_samples = 0 /\ duration = 0 /\ speed = 0 /\ max_sample_time = 0
    /\ samples = << >> /\ sample_counter = 0
    /\ start_time = 0 /\ end_time = 0
    /\ raw_data = << >> /\ frameStart = 0
    /\ lastRead = 0 /\ failed = FALSE
    /\ error = "none"
    /\ result = NoResult
    /\ args = NoArgs
    /\ displayed = << >>
    /\ gap = GapIdle
    /\ dec = DecIdle

\* --------------------------------------------------------------- actions
\* The call and everything up to the first test of the while condition:
\* default resolution, max_sample_time, the two readings of the clock
\* (end_time first, then start_time).
Call(e, ms, d, s, disp) ==
    /\ pc = "idle"
    /\ entry' = e
    /\ args' = [max_samples |-> ms, duration |-> d, speed |-> s, display_output |-> disp]
    /\ max_samples' = Resolve(ms, session.max_samples)
    /\ duration' = Resolve(d, session.duration)
    /\ speed' = Resolve(s, session.speed)
    /\ max_sample_time' = MaxSampleTime(duration', speed')
    /\ samples' = << >> /\ sample_counter' = 0
    /\ \E t \in Ticks :
          /\ end_time' = now
          /\ start_time' = now + t
          /\ now' = now + t
    /\ pc' = "loop"
    /\ UNCHANGED << session, stream, pos, raw_data, frameStart, lastRead,
                    failed, error, result, displayed, gap, dec >>

\* read_response, first read: std::string raw_data = read_data_from_serial_port(fd)
ReadFirst(len) ==
    /\ pc = "loop" /\ entry = "cpp" /\ LoopCond
    /\ LET r == read_data_from_serial_port(stream, pos, len) IN
         /\ lastRead' = len
         /\ failed' = (failed \/ len = ReadError)
         /\ frameStart' = pos
         /\ IF r.thrown
            THEN /\ pc' = "thrown" /\ error' = "length_error"
                 /\ UNCHANGED << raw_data, pos >>
            ELSE /\ pc' = "accum" /\ error' = error
                 /\ raw_data' = r.buffer
                 /\ pos' = pos + Len(r.buffer)
    /\ UNCHANGED << entry, session, stream, now, max_samples, duration, speed,
                    max_sample_time, samples, sample_counter, start_time,
                    end_time, result, args, displayed, gap, dec >>

\* read_response, the retry loop: while (raw_data.size() < 38) raw_data += read...
ReadMore(len) ==
    /\ pc = "accum" /\ Len(raw_data) < FrameSize
    /\ LET r == read_data_from_serial_port(stream, pos, len) IN
         /\ lastRead' = len
         /\ failed' = (failed \/ len = ReadError)
         /\ IF r.thrown
            THEN /\ pc' = "thrown" /\ error' = "length_error"
                 /\ UNCHANGED << raw_data, pos >>
            ELSE /\ pc' = "accum" /\ error' = error
                 /\ raw_data' = Accumulate(raw_data, r.buffer)
                 /\ pos' = pos + Len(r.buffer)
    /\ UNCHANGED << entry, session, stream, now, max_samples, duration, speed,
                    max_sample_time, samples, sample_counter, start_time,
                    end_time, frameStart, result, args, displayed, gap, dec >>

\* The rest of read_response and of the loop body up to the display step:
\* feed the unpacker, unpack, then end_time = now(), sample_counter++,
\* samples.push_back(result).
CppBody ==
    /\ pc = "accum" /\ Len(raw_data) >= FrameSize
    /\ LET u == Unpack(raw_data) IN
         IF u.err
         THEN /\ pc' = "thrown" /\ error' = "parse_error"
              /\ UNCHANGED << now, end_time, sample_counter, samples >>
         ELSE /\ pc' = "loop" /\ error' = error
              /\ \E t \in Ticks : now' = now + t /\ end_time' = now + t
              /\ sample_counter' = sample_counter + 1
              /\ samples' = push_back(samples, u.objs)
    /\ UNCHANGED << entry, session, stream, pos, max_samples, duration, speed,
                    max_sample_time, start_time, raw_data, frameStart,
                    lastRead, failed, result, args, gap, dec >>

\* if (display_output) std::cout << samples.back() << std::endl;
\* here samples has just been pushed to, so back() exists.
CppDisplay ==
    displayed' = IF args.display_output /\ pc' = "loop"
                 THEN Append(displayed, Last(samples'))
                 ELSE displayed

FinishCycle == CppBody /\ CppDisplay

\* One pass of HackEEGDriver::acquire_data's loop body up to the display step.
\* process_sample has no body in the source: it appends k entries, k in 0..1
\* (k = 0 is the body as it stands).
DriverBody(r, k) ==
    /\ pc = "loop" /\ entry = "driver" /\ LoopCond
    /\ \E t \in Ticks : now' = now + t /\ end_time' = now + t
    /\ sample_counter' = sample_counter + 1
    /\ samples' = IF session.mode = MessagePackMode THEN push_back(samples, r)
                  ELSE IF k = 1 THEN push_back(samples, r) ELSE samples
    /\ UNCHANGED << entry, session, stream, pos, max_samples, duration,
                    speed, max_sample_time, start_time, raw_data, frameStart,
                    lastRead, failed, error, result, args, gap, dec >>

\* if (display_output) std::cout << samples.back() << std::endl;
\* back() of an empty vector is undefined: the process crashes, or an
\* indeterminate value is printed and the loop goes on.
DriverDisplay ==
    IF ~args.display_output
    THEN pc' = pc /\ displayed' = displayed
    ELSE IF samples' # << >>
    THEN pc' = pc /\ displayed' = Append(displayed, Last(samples'))
    ELSE \/ pc' = "crashed" /\ displayed' = displayed
         \/ pc' = pc /\ \E g \in IndeterminateValues : displayed' = Append(displayed, g)

DriverCycle(r, k) == DriverBody(r, k) /\ DriverDisplay

\* The while condition is false: build what is returned.
Return ==
    /\ pc = "loop" /\ ~LoopCond
    /\ result' = [returned |-> TRUE, samples |-> samples, count |-> sample_counter,
                  elapsedMilli |-> IF entry = "cpp"
                                   THEN ElapsedCpp(end_time, start_time)
                                   ELSE ElapsedDriver(end_time, start_time)]
    /\ pc' = "done"
    /\ UNCHANGED << entry, session, stream, pos, now, max_samples, duration,
                    speed, max_sample_time, samples, sample_counter, start_time,
                    end_time, raw_data, frameStart, lastRead, failed, error,
                    args, displayed, gap, dec >>

Next ==
    \/ \E e \in {"cpp", "driver"}, ms \in -1..MaxSamples,
          d \in 0..MaxDurHalves, s \in 0..MaxSpeed, disp \in BOOLEAN :
             Call(e, ms, d, s, disp)
    \/ \E len \in ReadLens \cup {ReadError} : ReadFirst(len)
    \/ \E len \in ReadLens \cup {ReadError} : ReadMore(len)
    \/ FinishCycle
    \/ \E r \in DriverResults, k \in 0..1 : DriverCycle(r, k)
    \/ Return

Spec == Init /\ [][Next]_vars

\* The source is fair: a read that is retried eventually returns at least one
\* byte; the program itself keeps running.
ReadProgress == \E len \in ReadLens \ {0} : ReadMore(len)

\* The liveness runs take the device's regular stream (one 38-byte object per
\* frame); the reads, the sessions and the callers are those of Spec.
LiveInit == Init /\ stream = [objLen |-> FrameSize, corruptAt |-> -1]

LiveSpec ==
    /\ LiveInit /\ [][Next]_vars
    /\ WF_vars(ReadProgress)
    /\ WF_vars(FinishCycle)
    /\ WF_vars(Return)

\* ------------------------------------------------------------- properties
Min(a, b) == IF a <= b THEN a ELSE b

\* total number of objects the unpacker returned over the cycles kept in ss
RECURSIVE NumDecoded(_)
NumDecoded(ss) == IF ss = << >> THEN 0 ELSE Len(Head(ss)) + NumDecoded(Tail(ss))

\* the frame reader is about to hand raw_data to the unpacker
HandOff == pc = "accum" /\ Len(raw_data) >= FrameSize

\* a read() call of read_response
ReadStep == \E len \in ReadLens \cup {ReadError} : ReadFirst(len) \/ ReadMore(len)

\* C1: the buffer handed to the decoder has length exactly 38, whatever byte
\* counts the reads returned.
C1_HandOffExactlyFrameSize == HandOff => Len(raw_data) = FrameSize

C3_CounterWithinCaps ==
    (pc \in {"loop", "accum", "done"} /\ max_samples >= 0 /\ max_sample_time >= 0)
        => sample_counter <= Min(max_samples, max_sample_time)

C3_Witness ==
    /\ pc = "done" /\ sample_counter = 2
    /\ max_sample_time = 3 /\ max_samples = 2 /\ duration = 3 /\ speed = 2

\* C4: sample_counter equals the number of objects decoded so far.
C4_CounterCountsDecoded ==
    (entry = "cpp" /\ pc \in {"loop", "accum", "done"})
        => sample_counter = NumDecoded(samples)

\* C5: when max_samples is the binding cap, the loop ends with exactly
\* max_samples decoded samples and count = max_samples.
C5_ExactlyMaxSamples ==
    (pc = "done" /\ entry = "cpp" /\ max_samples >= 0 /\ max_samples <= max_sample_time)
        => /\ result.count = max_samples
           /\ NumDecoded(result.samples) = max_samples

\* C6: after a read error the acquisition has returned the samples decoded
\* before the failure, with a count equal to their number.
C6_PartialResultOnFailure ==
    (failed /\ pc \in {"done", "thrown"})
        => /\ result.returned
           /\ result.samples = samples
           /\ result.count = Len(result.samples)

\* C7: once the source has failed the loop has been left (by the exception)
\* and no read can be issued any more.
C7_ReadErrorStops ==
    failed => /\ pc = "thrown" /\ error = "length_error"
              /\ lastRead = ReadError
              /\ ~ENABLED ReadStep

C7_Witness == failed /\ pc = "thrown" /\ Len(samples) >= 1 /\ raw_data # << >>

\* C8: a short read never ends the frame reader (it is left without a read
\* error only with at least a whole frame), and on a fair source the
\* accumulation reaches a whole frame.
C8_ShortReadsRetried ==
    /\ [][(pc = "accum" /\ pc' # "accum" /\ ~failed') => Len(raw_data) >= FrameSize]_vars
    /\ [][(ReadStep /\ lastRead' \in 0..(FrameSize - 1))
            => (pc' = "accum" /\ error' = "none")]_vars
    /\ ((pc = "accum" /\ ~failed) ~> (failed \/ HandOff))

C8_Witness == HandOff /\ lastRead = 19 /\ Len(raw_data) = FrameSize /\ ~failed /\ frameStart = 0

\* C9: the elapsed time returned is end_time - start_time on one scale, and
\* is not negative.
C9_ElapsedConsistent ==
    pc = "done" =>
        /\ result.elapsedMilli >= 0
        /\ \/ result.elapsedMilli = ElapsedDivisor * (end_time - start_time)
           \/ result.elapsedMilli = end_time - start_time

\* C10: with max_samples = 0 and max_sample_time = 0 after default resolution
\* nothing is read and the result is empty, count 0, elapsed 0.
C10_ZeroCaps ==
    (pc = "done" /\ max_samples = 0 /\ max_sample_time = 0)
        => /\ pos = 0
           /\ result.samples = << >>
           /\ result.count = 0
           /\ result.elapsedMilli = 0

\* C11: each of max_samples, duration and speed is the caller's value when
\* that is not zero and the session's default when it is; max_sample_time is
\* the truncated product of the resolved duration and speed; the session's
\* defaults are never modified.
C11_DefaultResolution ==
    /\ [](pc # "idle" =>
            /\ max_samples = (IF args.max_samples = 0 THEN session.max_samples
                              ELSE args.max_samples)
            /\ duration = (IF args.duration = 0 THEN session.duration
                           ELSE args.duration)
            /\ speed = (IF args.speed = 0 THEN session.speed ELSE args.speed)
            /\ max_sample_time * DurDenom <= duration * speed
            /\ duration * speed < (max_sample_time + 1) * DurDenom)
    /\ [][session' = session]_vars

C11_Witness ==
    /\ pc = "done"
    /\ args.max_samples = 0 /\ max_samples = MaxSamples
    /\ args.duration = 2 /\ duration = 2
    /\ args.speed = 0 /\ speed = 1
    /\ max_sample_time = 1

\* C14: when a frame does not parse, the decode error is part of what the
\* caller receives, together with the samples of the earlier cycles.
C14_DecodeErrorReported ==
    error = "parse_error" =>
        /\ pc # "thrown"
        /\ result.returned
        /\ result.samples = samples

\* C17: during the loop the sample sequence changes only by one entry being
\* appended at its end, the entry decoded in the cycle that just ended, so
\* entries keep their places and earlier cycles come first.
C17_AppendOnly ==
    [][(entry = "cpp" /\ pc \in {"loop", "accum"})
         => \/ samples' = samples
            \/ /\ HandOff
               /\ Len(samples') = Len(samples) + 1
               /\ SubSeq(samples', 1, Len(samples)) = samples
               /\ samples'[Len(samples')] = Unpack(raw_data).objs]_vars

C17_Witness ==
    /\ entry = "cpp" /\ pc = "done"
    /\ Len(samples) = 2 /\ samples[1] # samples[2]
    /\ samples[2] = Unpack(raw_data).objs

\* a pass of either loop, and that pass with the display step left out
LoopPass == (\E r \in DriverResults, k \in 0..1 : DriverCycle(r, k)) \/ FinishCycle
LoopPassWithoutDisplay ==
    \/ \E r \in DriverResults, k \in 0..1 : DriverBody(r, k) /\ pc' = pc
    \/ CppBody

\* C18: a loop pass with display output enabled changes the loop's state as
\* the same pass without it does, and the display step never ends the
\* acquisition.
C18_DisplayNoEffect ==
    [][(LoopPass => LoopPassWithoutDisplay) /\ pc' # "crashed"]_vars

\* the objects of all cycles, in order
RECURSIVE Flatten(_)
Flatten(ss) == IF ss = << >> THEN << >> ELSE Head(ss) \o Flatten(Tail(ss))

\* C19: at every cycle boundary the frames read so far start at multiples of
\* 38 and the objects decoded over the cycles are the objects encoded in the
\* bytes consumed from the source.
C19_SessionDecodesStream ==
    (entry = "cpp" /\ pc \in {"loop", "done"} /\ stream.corruptAt = -1)
        => /\ pos % FrameSize = 0
           /\ Flatten(samples) = Unpack(StreamSlice(stream, 0, pos)).objs

\* C20: at every loop boundary and on exit sample_counter is the number of
\* entries of samples, in both functions and both modes.
C20_CounterMatchesEntries ==
    pc \in {"loop", "accum", "done", "crashed"} => sample_counter = Len(samples)

\* ------------------------------------------------------------ gap detector
\* longest sample list given to find_dropped_samples at first
MaxGapLen == 3
\* largest sequence number a sample carries
MaxSeqNo == 3
\* largest number_of_samples asked about
MaxExpected == 5

\* a decoded sample, as far as the gap detector reads it
GapSamples == [sample_number : -1..MaxSeqNo, data : {0}]

RECURSIVE SeqsUpTo(_, _)
SeqsUpTo(S, n) ==
    IF n = 0 THEN { << >> }
    ELSE LET shorter == SeqsUpTo(S, n - 1)
         IN  shorter \cup { Append(s, x) : s \in { q \in shorter : Len(q) = n - 1 }, x \in S }

\* get_sample_number: the sample's sequence-number field
get_sample_number(sample) == sample.sample_number

\* for (sample : samples) sample_numbers.insert(get_sample_number(sample))
RECURSIVE InsertSampleNumbers(_, _)
InsertSampleNumbers(ss, acc) ==
    IF ss = << >> THEN acc
    ELSE InsertSampleNumbers(Tail(ss), acc \cup { get_sample_number(Head(ss)) })

\* for (index = 0; index < number_of_samples; index++) correct_sequence.insert(index)
RECURSIVE InsertIndexes(_, _, _)
InsertIndexes(index, number_of_samples, acc) ==
    IF index < number_of_samples
    THEN InsertIndexes(index + 1, number_of_samples, acc \cup { index })
    ELSE acc

\* the numbers pushed to missing_samples: those of correct_sequence that
\* sample_numbers.find does not find
MissingSamples(sample_numbers, correct_sequence) ==
    { n \in correct_sequence : n \notin sample_numbers }

\* three slips of find_dropped_samples: index <= number_of_samples; counting
\* entries instead of distinct numbers; comparing samples[i] with i
find_dropped_OffByOne(sample_list, number_of_samples) ==
    Cardinality(MissingSamples(InsertSampleNumbers(sample_list, {}),
                               InsertIndexes(0, number_of_samples + 1, {})))
find_dropped_CountEntries(sample_list, number_of_samples) ==
    IF number_of_samples > Len(sample_list) THEN number_of_samples - Len(sample_list) ELSE 0
find_dropped_Positional(sample_list, number_of_samples) ==
    Cardinality({ i \in InsertIndexes(0, number_of_samples, {}) :
                    i + 1 > Len(sample_list) \/ get_sample_number(sample_list[i + 1]) # i })

find_dropped_samples(sample_list, number_of_samples) ==
    Cardinality(MissingSamples(InsertSampleNumbers(sample_list, {}),
                               InsertIndexes(0, number_of_samples, {})))

\* everything but the gap detector's call stays as constructed
MainParked ==
    /\ pc = "idle" /\ entry = "cpp"
    /\ session = [max_samples |-> 0, duration |-> 0, speed |-> 0, mode |-> MessagePackMode]
    /\ stream = [objLen |-> FrameSize, corruptAt |-> -1]
    /\ pos = 0 /\ now = 0
    /\ max_samples = 0 /\ duration = 0 /\ speed = 0 /\ max_sample_time = 0
    /\ samples = << >> /\ sample_counter = 0
    /\ start_time = 0 /\ end_time = 0
    /\ raw_data = << >> /\ frameStart = 0
    /\ lastRead = 0 /\ failed = FALSE
    /\ error = "none"
    /\ result = NoResult
    /\ args = NoArgs
    /\ displayed = << >>

mainVars == << pc, entry, session, stream, pos, now, max_samples, duration, speed,
               max_sample_time, samples, sample_counter, start_time, end_time,
               raw_data, frameStart, lastRead, failed, error, result, args,
               displayed >>

GapInit ==
    /\ MainParked /\ dec = DecIdle
    /\ \E s \in SeqsUpTo(GapSamples, MaxGapLen), n \in -1..MaxExpected :
          gap = [samples |-> s, expected |-> n, result |-> -1, op |-> "input"]

\* the call find_dropped_samples(samples, number_of_samples)
FindDropped ==
    /\ gap.op = "input"
    /\ gap' = [gap EXCEPT !.result = find_dropped_samples(gap.samples, gap.expected),
                          !.op = "called"]
    /\ UNCHANGED << mainVars, dec >>

\* the call again, on the list with a copy of its i-th sample added
FindDroppedWithCopy(i) ==
    /\ gap.op # "input" /\ Len(gap.samples) <= MaxGapLen
    /\ i \in 1..Len(gap.samples)
    /\ LET more == Append(gap.samples, gap.samples[i]) IN
         gap' = [gap EXCEPT !.samples = more,
                            !.result = find_dropped_samples(more, gap.expected),
                            !.op = "copy"]
    /\ UNCHANGED << mainVars, dec >>

\* the call again, on the list with its i-th and j-th samples exchanged
FindDroppedPermuted(i, j) ==
    /\ gap.op # "input"
    /\ i \in 1..Len(gap.samples) /\ j \in 1..Len(gap.samples) /\ i < j
    /\ LET swapped == [gap.samples EXCEPT ![i] = gap.samples[j], ![j] = gap.samples[i]] IN
         gap' = [gap EXCEPT !.samples = swapped,
                            !.result = find_dropped_samples(swapped, gap.expected),
                            !.op = "permuted"]
    /\ UNCHANGED << mainVars, dec >>

GapNext ==
    \/ FindDropped
    \/ \E i \in 1..(MaxGapLen + 1) : FindDroppedWithCopy(i)
    \/ \E i, j \in 1..(MaxGapLen + 1) : FindDroppedPermuted(i, j)

GapSpec == GapInit /\ [][GapNext]_vars

\* the sequence numbers present in the list
Present == { gap.samples[i].sample_number : i \in 1..Len(gap.samples) }

\* C12: find_dropped_samples returns the number of elements of
\* {0, ..., expected_count - 1} that are no sample's sequence number.
C12_DroppedIsReferenceMinusPresent ==
    gap.op \in {"called", "copy", "permuted"}
        => gap.result = Cardinality((0..(gap.expected - 1)) \ Present)

C12_Witness ==
    /\ gap.op = "called" /\ gap.expected = 5 /\ gap.result = 2
    /\ Len(gap.samples) = 3
    /\ gap.samples[1].sample_number = 0
    /\ gap.samples[2].sample_number = 1
    /\ gap.samples[3].sample_number = 3

\* C15: adding a copy of a sample already in the list never changes
\* dropped_count.
C15_CopiesChangeNothing ==
    [][gap'.op = "copy" => gap'.result = gap.result]_vars

C15_Witness ==
    /\ gap.op = "copy" /\ gap.result = 2 /\ gap.expected = 4
    /\ Len(gap.samples) = 3 /\ Cardinality(Present) = 2

\* C16: exchanging two samples of the list never changes dropped_count, and a
\* list whose sequence numbers are exactly {0, ..., expected_count - 1}, in
\* any order, has dropped_count = 0.
C16_OrderIndependent ==
    /\ [][gap'.op = "permuted" => gap'.result = gap.result]_vars
    /\ []((gap.op # "input" /\ gap.op # "idle" /\ Present = 0..(gap.expected - 1))
            => gap.result = 0)

C16_Witness ==
    /\ gap.op = "permuted" /\ gap.expected = 3 /\ gap.result = 0
    /\ Len(gap.samples) = 3
    /\ gap.samples[1].sample_number = 2
    /\ gap.samples[2].sample_number = 0
    /\ gap.samples[3].sample_number = 1

\* ----------------------------------------------------- the unpack loop alone
\* most objects in one encoded buffer
MaxObjs == 3

\* the objects encoded: small integers, and bin objects of 0 and 2 bytes
ObjectKinds ==
    { [type |-> "int", val |-> 0], [type |-> "int", val |-> MaxFixInt],
      [type |-> "bin", val |-> 0], [type |-> "bin", val |-> 2] }

\* MessagePack encoding of one object: a positive fixint is its own byte; a
\* bin8 is 0xc4, its length, and its payload (here bytes 0xc1, which only a
\* decoder that wrongly parses payloads would trip over)
Encode(o) ==
    IF o.type = "int" THEN << o.val >>
    ELSE << ByteBin8, o.val >> \o [k \in 1..o.val |-> ByteNeverUsed]

RECURSIVE EncodeAll(_)
EncodeAll(os) == IF os = << >> THEN << >> ELSE Encode(Head(os)) \o EncodeAll(Tail(os))

DecodeInit ==
    /\ MainParked /\ gap = GapIdle
    /\ \E os \in SeqsUpTo(ObjectKinds, MaxObjs) :
          dec = [objs |-> os, out |-> << >>, err |-> FALSE, done |-> FALSE]

\* read_response's unpacking of a buffer holding the encoded objects
DecodeBuffer ==
    /\ ~dec.done
    /\ LET u == Unpack(EncodeAll(dec.objs)) IN
         dec' = [dec EXCEPT !.out = u.objs, !.err = u.err, !.done = TRUE]
    /\ UNCHANGED << mainVars, gap >>

DecodeNext == DecodeBuffer

DecodeSpec == DecodeInit /\ [][DecodeNext]_vars

\* C13: unpacking the concatenation of N encoded objects yields those N
\* objects, in encoding order, and no error.
C13_DecodesEveryObjectInOrder ==
    dec.done => (~dec.err /\ dec.out = dec.objs)

C13_Witness ==
    /\ dec.done /\ Len(dec.out) = 3
    /\ dec.out[1] = [type |-> "bin", val |-> 2]
    /\ dec.out[2] = [type |-> "int", val |-> 0]
    /\ dec.out[3] = [type |-> "bin", val |-> 0]

====
